---- MODULE Spec2Model ----
(***************************************************************************)
(* Model of extension/generate_icon.py: a script that imports the imaging  *)
(* library, draws a 128x128 RGBA icon with a fixed sequence of drawing     *)
(* calls, saves it as icon.png and prints status lines; two except         *)
(* clauses report a missing library or any other error.                    *)
(*                                                                         *)
(* The canvas is the full pixel buffer, img[x][y] = <<r, g, b, a>>.  The   *)
(* canvas has mode RGBA and the drawing context is created without a       *)
(* blending mode, so every primitive replaces the pixels it covers.        *)
(* The script is run MaxRuns times in a row in the same working directory. *)
(***************************************************************************)
EXTENDS Integers, Sequences, FiniteSets, TLC

\* Number of consecutive runs of the script that are explored.
MaxRuns == 2

(* State of one run: the position in the script (pc), the locals of        *)
(* create_icon (img, i, hex_points, x_offset), the module variable icon,   *)
(* the console (out) and the file icon.png (fs).  calls records the        *)
(* drawing calls made so far, fs0 the file as the run found it, created    *)
(* whether the save created the file, writes the completed saves of the    *)
(* run, exc and raisedAt the exception raised and where, and last the      *)
(* calls and file of the latest earlier run that succeeded.                *)
VARIABLES run, pc, img, i, hex_points, x_offset, icon, calls, out, fs, fs0,
          created, writes, exc, raisedAt, last

vars == <<run, pc, img, i, hex_points, x_offset, icon, calls, out, fs, fs0,
          created, writes, exc, raisedAt, last>>

----------------------------------------------------------------------------
(* Constants of create_icon *)

size == 128
azure_blue == <<0, 120, 212>>
azure_dark == <<0, 90, 158>>
white == <<255, 255, 255>>
vscode_blue == <<0, 122, 204>>
center == size \div 2
radius == 58
hex_center_x == center
hex_center_y == center - 5
hex_radius == 25
line_y_start == center - 20
\* Mutant: the dots are placed under the hexagon.
dot_y_under == center + 30
dot_y == center + 5
dot_offsets == <<-8, 0, 8>>
chart_points == << <<center - 12, center + 18>>,
                   <<center - 6, center + 15>>,
                   <<center, center + 20>>,
                   <<center + 6, center + 12>>,
                   <<center + 12, center + 16>> >>
badge_size == 8
badge_x == center + 25
badge_y == center + 25

Coord == 0 .. (size - 1)
\* None, for a canvas that does not exist (yet)
NoImage == << >>

----------------------------------------------------------------------------
(* Colours *)

\* A 3-tuple fill or outline is stored in an RGBA canvas with alpha 255.
Ink(c) == IF Len(c) = 3 THEN c \o <<255>> ELSE c

\* Mutant: the quotient i / radius taken as an integer division.
GradAlphaIntDiv(n) == 255 * (n \div radius)

\* Mutant: the alpha scale drifts with the number of the run.
GradAlphaDrift(n) == (255 * n) \div (radius + run - 1)

\* alpha = int(255 * (i / radius))
GradAlpha(n) == (255 * n) \div radius

\* int(azure_blue[j] + (azure_dark[j] - azure_blue[j]) * (1 - i/radius));
\* the sum is never negative, so int() is the floor of the exact quotient.
GradComponent(j, n) ==
    (azure_blue[j] * radius + (azure_dark[j] - azure_blue[j]) * (radius - n))
        \div radius

GradColor(n) == <<GradComponent(1, n), GradComponent(2, n), GradComponent(3, n)>>

----------------------------------------------------------------------------
(* Geometry of the drawing primitives.  A box is <<x0, y0, x1, y1>>. *)

Abs(n) == IF n < 0 THEN -n ELSE n

\* Mutant: the canvas is allocated without an alpha channel, so that
\* every pixel is opaque.
NewImageOpaque(sz, fill) ==
    [x \in 0 .. (sz - 1) |-> [y \in 0 .. (sz - 1) |->
        <<fill[1], fill[2], fill[3], 255>>]]

\* Image.new('RGBA', (size, size), (0, 0, 0, 0))
NewImage(sz, fill) == [x \in 0 .. (sz - 1) |-> [y \in 0 .. (sz - 1) |-> fill]]

\* Pixels of the filled ellipse inscribed in the box.
InEllipse(x, y, box) ==
    LET w == box[3] - box[1]
        h == box[4] - box[2]
        ex == 2 * x - box[1] - box[3]
        ey == 2 * y - box[2] - box[4]
    IN  ex * ex * h * h + ey * ey * w * w <= w * w * h * h

\* Pixels of an ellipse outline of the given width: inside the box's
\* ellipse and outside the ellipse of the box shrunk by width.
InEllipseOutline(x, y, box, width) ==
    /\ InEllipse(x, y, box)
    /\ ~ InEllipse(x, y, <<box[1] + width, box[2] + width,
                           box[3] - width, box[4] - width>>)

\* Rectangles include both corners.
InRectangle(x, y, box) ==
    /\ box[1] <= x /\ x <= box[3]
    /\ box[2] <= y /\ y <= box[4]

\* Pixels of the one-pixel line from p to q (Bresenham; the minor
\* coordinate is the major one scaled and rounded half up).
OnLine(x, y, p, q) ==
    LET dx == Abs(q[1] - p[1])
        dy == Abs(q[2] - p[2])
        xs == IF q[1] >= p[1] THEN 1 ELSE -1
        ys == IF q[2] >= p[2] THEN 1 ELSE -1
    IN  IF dx = 0 /\ dy = 0 THEN x = p[1] /\ y = p[2]
        ELSE IF dx >= dy
        THEN LET k == (x - p[1]) * xs
             IN  /\ 0 <= k /\ k <= dx
                 /\ y = p[2] + ys * ((2 * k * dy + dx) \div (2 * dx))
        ELSE LET k == (y - p[2]) * ys
             IN  /\ 0 <= k /\ k <= dy
                 /\ x = p[1] + xs * ((2 * k * dx + dy) \div (2 * dy))

\* z-component of (b - a) x (p - a)
Cross(a, b, x, y) == (b[1] - a[1]) * (y - a[2]) - (b[2] - a[2]) * (x - a[1])

Succ(k, n) == IF k = n THEN 1 ELSE k + 1

\* Pixels of a filled convex polygon with integer vertices.
InPolygon(x, y, pts) ==
    LET n == Len(pts)
    IN  \/ \A k \in 1 .. n : Cross(pts[k], pts[Succ(k, n)], x, y) >= 0
        \/ \A k \in 1 .. n : Cross(pts[k], pts[Succ(k, n)], x, y) <= 0

OnPolygonOutline(x, y, pts) ==
    LET n == Len(pts)
    IN  \E k \in 1 .. n : OnLine(x, y, pts[k], pts[Succ(k, n)])

----------------------------------------------------------------------------
(* Hexagon vertices.  Angles are kept in degrees and coordinates in        *)
(* millionths of a pixel; math.cos and math.sin at the multiples of 30     *)
(* degrees are tabulated to six decimals.  In double arithmetic           *)
(* math.cos(-math.pi/2) is about 6e-17, which the sum 64 + 25 * 6e-17      *)
(* rounds away, so the tabulated 0 gives the coordinate the code computes. *)

Micro == 1000000

CosMicro(deg) ==
    LET d == deg % 360
    IN  CASE d = 0 -> 1000000
          [] d = 30 \/ d = 330 -> 866025
          [] d = 60 \/ d = 300 -> 500000
          [] d = 90 \/ d = 270 -> 0
          [] d = 120 \/ d = 240 -> -500000
          [] d = 150 \/ d = 210 -> -866025
          [] d = 180 -> -1000000

SinMicro(deg) == CosMicro(deg - 90)

\* Mutant: the quarter-turn offset is missing.
HexAngleNoOffset(n) == n * 60

\* angle = i * math.pi / 3, used as angle - math.pi/2
HexAngle(n) == n * 60 - 90

\* (x, y) of vertex i, in millionths of a pixel
HexPoint(n) ==
    <<hex_center_x * Micro + hex_radius * CosMicro(HexAngle(n)),
      hex_center_y * Micro + hex_radius * SinMicro(HexAngle(n))>>

\* draw.polygon converts float coordinates to int by truncation.
TruncPoint(p) == <<p[1] \div Micro, p[2] \div Micro>>

TruncPoints(pts) == [k \in 1 .. Len(pts) |-> TruncPoint(pts[k])]

----------------------------------------------------------------------------
(* ImageDraw primitives: each returns the canvas with the covered pixels   *)
(* replaced by the ink.                                                    *)

DrawEllipse(im, box, fill) ==
    [x \in DOMAIN im |-> [y \in DOMAIN im[x] |->
        IF InEllipse(x, y, box) THEN Ink(fill) ELSE im[x][y]]]

DrawEllipseOutline(im, box, outline, width) ==
    [x \in DOMAIN im |-> [y \in DOMAIN im[x] |->
        IF InEllipseOutline(x, y, box, width) THEN Ink(outline) ELSE im[x][y]]]

DrawRectangle(im, box, fill) ==
    [x \in DOMAIN im |-> [y \in DOMAIN im[x] |->
        IF InRectangle(x, y, box) THEN Ink(fill) ELSE im[x][y]]]

\* Mutant: the polygon is outlined but not filled.
DrawPolygonNoFill(im, xy, fill, outline) ==
    LET pts == TruncPoints(xy)
    IN  [x \in DOMAIN im |-> [y \in DOMAIN im[x] |->
            IF OnPolygonOutline(x, y, pts) THEN Ink(outline) ELSE im[x][y]]]

\* The fill is painted first, the outline over it.
DrawPolygon(im, xy, fill, outline) ==
    LET pts == TruncPoints(xy)
    IN  [x \in DOMAIN im |-> [y \in DOMAIN im[x] |->
            IF OnPolygonOutline(x, y, pts) THEN Ink(outline)
            ELSE IF InPolygon(x, y, pts) THEN Ink(fill)
            ELSE im[x][y]]]

\* For a segment that is not axis-parallel a width of 2 adds no pixel to
\* the one-pixel line.
DrawLine(im, p, q, fill) ==
    [x \in DOMAIN im |-> [y \in DOMAIN im[x] |->
        IF OnLine(x, y, p, q) THEN Ink(fill) ELSE im[x][y]]]

----------------------------------------------------------------------------
(* Boxes of the drawing calls *)

CircleBox(r) == <<center - r, center - r, center + r, center + r>>

BarBox(k) ==
    CASE k = 1 -> <<center - 16, line_y_start, center + 16, line_y_start + 2>>
      [] k = 2 -> <<center - 16, line_y_start + 6, center + 8, line_y_start + 8>>
      [] k = 3 -> <<center - 16, line_y_start + 12, center + 12, line_y_start + 14>>

DotBox(off) == <<center + off - 2, dot_y - 2, center + off + 2, dot_y + 2>>

BadgeOuterBox == <<badge_x, badge_y, badge_x + badge_size, badge_y + badge_size>>

\* Mutant: the inner square is not inset.
BadgeInnerBoxNoInset ==
    <<badge_x, badge_y, badge_x + badge_size, badge_y + badge_size>>

BadgeInnerBox == <<badge_x + 1, badge_y + 1,
                   badge_x + badge_size - 1, badge_y + badge_size - 1>>

----------------------------------------------------------------------------
(* Files and console lines *)

NoFile == [exists |-> FALSE, complete |-> FALSE, format |-> "", mode |-> "",
           dims |-> <<0, 0>>, pixels |-> << >>]

\* icon.png opened for writing: it exists and is empty.
Truncated == [NoFile EXCEPT !.exists = TRUE]

\* icon.save('icon.png', 'PNG') of an RGBA canvas
PngFile(im) == [exists |-> TRUE, complete |-> TRUE, format |-> "PNG",
                mode |-> "RGBA", dims |-> <<Cardinality(DOMAIN im),
                                            Cardinality(DOMAIN im[0])>>,
                pixels |-> im]

\* A printed line is a sequence of strings: its fixed text and, for the
\* error line, the text of the exception.
SuccessLine == <<"Icon generated successfully: icon.png">>
SizeLine == <<"Size: 128x128 pixels">>
FormatLine == <<"Format: PNG with transparency">>
NotInstalledLine == <<"PIL (Pillow) not installed. Install with: pip install Pillow">>
ErrorLine(e) == <<"Error generating icon: ", e>>
FallbackLine == <<"Alternative: Open create-icon.html in a browser and click 'Download Icon'">>

\* Exception classes a statement of the try block can raise.  A missing
\* package raises ModuleNotFoundError, a subclass of ImportError.
ExcTypes == {"ModuleNotFoundError", "ImportError", "OSError"}

IsSubclass(e, cls) ==
    \/ cls = "Exception"
    \/ e = cls
    \/ cls = "ImportError" /\ e = "ModuleNotFoundError"

\* Mutant: the first clause matches the class ImportError itself only.
ExceptClauseExact(e) ==
    IF e = "ImportError" THEN "ImportError"
    ELSE IF IsSubclass(e, "Exception") THEN "Exception"
    ELSE "none"

\* The first except clause whose class matches the raised exception.
ExceptClause(e) ==
    IF IsSubclass(e, "ImportError") THEN "ImportError"
    ELSE IF IsSubclass(e, "Exception") THEN "Exception"
    ELSE "none"

NoLast == [set |-> FALSE, calls |-> << >>, file |-> NoFile]

----------------------------------------------------------------------------
Call(step, op, xy, fill, outline, width) ==
    [step |-> step, op |-> op, xy |-> xy, fill |-> fill,
     outline |-> outline, width |-> width]

Init ==
    /\ run = 1
    /\ pc = "import"
    /\ img = NoImage
    /\ i = 0
    /\ hex_points = << >>
    /\ x_offset = 0
    /\ icon = NoImage
    /\ calls = << >>
    /\ out = << >>
    /\ fs = NoFile
    /\ fs0 = NoFile
    /\ created = FALSE
    /\ writes = 0
    /\ exc = "none"
    /\ raisedAt = "none"
    /\ last = NoLast

\* from PIL import Image, ImageDraw; import math; def create_icon
Import ==
    /\ pc = "import"
    /\ pc' = "new"
    /\ UNCHANGED <<run, img, i, hex_points, x_offset, icon, calls, out, fs,
                   fs0, created, writes, exc, raisedAt, last>>

\* img = Image.new(...); draw = ImageDraw.Draw(img)
Allocate ==
    /\ pc = "new"
    /\ img' = NewImage(size, <<0, 0, 0, 0>>)
    /\ calls' = Append(calls, Call("canvas", "new", <<size, size>>,
                                   <<0, 0, 0, 0>>, << >>, 0))
    /\ i' = radius
    /\ pc' = "gradient"
    /\ UNCHANGED <<run, hex_points, x_offset, icon, out, fs, fs0, created,
                   writes, exc, raisedAt, last>>

\* one iteration of: for i in range(radius, 0, -1)
GradientBand ==
    /\ pc = "gradient"
    /\ img' = DrawEllipse(img, CircleBox(i), GradColor(i) \o <<GradAlpha(i)>>)
    /\ calls' = Append(calls, Call("gradient", "ellipse", CircleBox(i),
                                   GradColor(i) \o <<GradAlpha(i)>>, << >>, 0))
    /\ IF i - 1 > 0
       THEN i' = i - 1 /\ pc' = pc
       ELSE i' = i /\ pc' = "border"
    /\ UNCHANGED <<run, hex_points, x_offset, icon, out, fs, fs0, created,
                   writes, exc, raisedAt, last>>

\* draw.ellipse(..., outline=azure_dark, width=2)
Border ==
    /\ pc = "border"
    /\ img' = DrawEllipseOutline(img, CircleBox(radius), azure_dark, 2)
    /\ calls' = Append(calls, Call("border", "ellipse", CircleBox(radius),
                                   << >>, azure_dark, 2))
    /\ hex_points' = << >>
    /\ i' = 0
    /\ pc' = "hexpts"
    /\ UNCHANGED <<run, x_offset, icon, out, fs, fs0, created, writes,
                   exc, raisedAt, last>>

\* one iteration of: for i in range(6): ... hex_points.append((x, y))
HexVertex ==
    /\ pc = "hexpts"
    /\ hex_points' = Append(hex_points, HexPoint(i))
    /\ IF i + 1 < 6
       THEN i' = i + 1 /\ pc' = pc
       ELSE i' = i /\ pc' = "polygon"
    /\ UNCHANGED <<run, img, x_offset, icon, calls, out, fs, fs0, created,
                   writes, exc, raisedAt, last>>

\* draw.polygon(hex_points, fill=white, outline=azure_blue, width=1)
Hexagon ==
    /\ pc = "polygon"
    /\ img' = DrawPolygon(img, hex_points, white, azure_blue)
    /\ calls' = Append(calls, Call("hexagon", "polygon", hex_points, white,
                                   azure_blue, 1))
    /\ pc' = "bar1"
    /\ UNCHANGED <<run, i, hex_points, x_offset, icon, out, fs, fs0, created,
                   writes, exc, raisedAt, last>>

BarPc(k) == CASE k = 1 -> "bar1" [] k = 2 -> "bar2" [] k = 3 -> "bar3"

\* the k-th of the three draw.rectangle calls of the work item lines
WorkItemLine(k) ==
    /\ pc = BarPc(k)
    /\ img' = DrawRectangle(img, BarBox(k), azure_blue)
    /\ calls' = Append(calls, Call("bars", "rectangle", BarBox(k),
                                   azure_blue, << >>, 0))
    /\ IF k < 3
       THEN pc' = BarPc(k + 1) /\ x_offset' = x_offset
       ELSE pc' = "dots" /\ x_offset' = dot_offsets[1]
    /\ UNCHANGED <<run, i, hex_points, icon, out, fs, fs0, created, writes,
                   exc, raisedAt, last>>

\* one iteration of: for x_offset in [-8, 0, 8]
SprintDot ==
    /\ pc = "dots"
    /\ img' = DrawEllipse(img, DotBox(x_offset), azure_blue)
    /\ calls' = Append(calls, Call("dots", "ellipse", DotBox(x_offset),
                                   azure_blue, << >>, 0))
    /\ LET k == CHOOSE n \in 1 .. Len(dot_offsets) : dot_offsets[n] = x_offset
       IN  IF k < Len(dot_offsets)
           THEN x_offset' = dot_offsets[k + 1] /\ pc' = pc /\ i' = i
           ELSE x_offset' = x_offset /\ pc' = "chart" /\ i' = 0
    /\ UNCHANGED <<run, hex_points, icon, out, fs, fs0, created, writes,
                   exc, raisedAt, last>>

\* one iteration of: for i in range(len(chart_points)-1)
ChartLine ==
    /\ pc = "chart"
    /\ img' = DrawLine(img, chart_points[i + 1], chart_points[i + 2], azure_blue)
    /\ calls' = Append(calls, Call("chart", "line",
                                   <<chart_points[i + 1], chart_points[i + 2]>>,
                                   azure_blue, << >>, 2))
    /\ IF i + 1 < Len(chart_points) - 1
       THEN i' = i + 1 /\ pc' = pc
       ELSE i' = i /\ pc' = "badge_outer"
    /\ UNCHANGED <<run, hex_points, x_offset, icon, out, fs, fs0, created,
                   writes, exc, raisedAt, last>>

BadgeOuter ==
    /\ pc = "badge_outer"
    /\ img' = DrawRectangle(img, BadgeOuterBox, vscode_blue)
    /\ calls' = Append(calls, Call("badge", "rectangle", BadgeOuterBox,
                                   vscode_blue, << >>, 0))
    /\ pc' = "badge_inner"
    /\ UNCHANGED <<run, i, hex_points, x_offset, icon, out, fs, fs0, created,
                   writes, exc, raisedAt, last>>

BadgeInner ==
    /\ pc = "badge_inner"
    /\ img' = DrawRectangle(img, BadgeInnerBox, white)
    /\ calls' = Append(calls, Call("badge", "rectangle", BadgeInnerBox,
                                   white, << >>, 0))
    /\ pc' = "return"
    /\ UNCHANGED <<run, i, hex_points, x_offset, icon, out, fs, fs0, created,
                   writes, exc, raisedAt, last>>

\* Mutant: the returned canvas is reported without being saved.
ReturnUnsaved ==
    /\ pc = "return"
    /\ icon' = img
    /\ img' = NoImage
    /\ pc' = "print1"
    /\ UNCHANGED <<run, i, hex_points, x_offset, calls, out, fs, fs0,
                   created, writes, exc, raisedAt, last>>

\* return img; icon = create_icon()
Return ==
    /\ pc = "return"
    /\ icon' = img
    /\ img' = NoImage
    /\ pc' = "save"
    /\ UNCHANGED <<run, i, hex_points, x_offset, calls, out, fs, fs0,
                   created, writes, exc, raisedAt, last>>

\* icon.save: the file is opened for writing, which creates or empties it
SaveOpen ==
    /\ pc = "save"
    /\ created' = ~ fs.exists
    /\ fs' = Truncated
    /\ pc' = "write"
    /\ UNCHANGED <<run, img, i, hex_points, x_offset, icon, calls, out, fs0,
                   writes, exc, raisedAt, last>>

\* icon.save: the encoded image is written
SaveWrite ==
    /\ pc = "write"
    /\ fs' = PngFile(icon)
    /\ writes' = writes + 1
    /\ pc' = "print1"
    /\ UNCHANGED <<run, img, i, hex_points, x_offset, icon, calls, out, fs0,
                   created, exc, raisedAt, last>>

StatusLine(k) == CASE k = 1 -> SuccessLine [] k = 2 -> SizeLine [] k = 3 -> FormatLine
PrintPc(k) == CASE k = 1 -> "print1" [] k = 2 -> "print2" [] k = 3 -> "print3"
                [] k = 4 -> "done"

\* the three print calls after the save
PrintStatus(k) ==
    /\ pc = PrintPc(k)
    /\ out' = Append(out, StatusLine(k))
    /\ pc' = PrintPc(k + 1)
    /\ UNCHANGED <<run, img, i, hex_points, x_offset, icon, calls, fs, fs0,
                   created, writes, exc, raisedAt, last>>

\* Statements of the try block that can raise
ImportPcs == {"import"}
DrawPcs == {"new", "gradient", "border", "hexpts", "polygon", "bar1", "bar2",
            "bar3", "dots", "chart", "badge_outer", "badge_inner"}
SavePcs == {"save", "write"}

\* The statement at pc raises e: control moves to the except clauses.  A
\* save that fails after opening the file removes the file if the save
\* created it and leaves it as it is otherwise.
Raise(e) ==
    /\ pc \in ImportPcs \cup DrawPcs \cup SavePcs
    /\ exc' = e
    /\ raisedAt' = pc
    /\ fs' = IF pc = "write" /\ created THEN NoFile ELSE fs
    /\ pc' = "except"
    /\ UNCHANGED <<run, img, i, hex_points, x_offset, icon, calls, out, fs0,
                   created, writes, last>>

\* except ImportError / except Exception as e: the first print of the
\* matching clause; with no matching clause the exception propagates.
Handler ==
    /\ pc = "except"
    /\ LET clause == ExceptClause(exc)
       IN  IF clause = "ImportError"
           THEN out' = Append(out, NotInstalledLine) /\ pc' = "fallback"
           ELSE IF clause = "Exception"
           THEN out' = Append(out, ErrorLine(exc)) /\ pc' = "fallback"
           ELSE out' = out /\ pc' = "propagated"
    /\ UNCHANGED <<run, img, i, hex_points, x_offset, icon, calls, fs, fs0,
                   created, writes, exc, raisedAt, last>>

\* second print of either except clause
Fallback ==
    /\ pc = "fallback"
    /\ out' = Append(out, FallbackLine)
    /\ pc' = "done"
    /\ UNCHANGED <<run, img, i, hex_points, x_offset, icon, calls, fs, fs0,
                   created, writes, exc, raisedAt, last>>

\* The script is run again in the same directory; a successful run is
\* remembered for comparison.
NextRun ==
    /\ pc = "done"
    /\ run < MaxRuns
    /\ run' = run + 1
    /\ last' = IF exc = "none"
               THEN [set |-> TRUE, calls |-> calls, file |-> fs]
               ELSE last
    /\ fs0' = fs
    /\ pc' = "import"
    /\ img' = NoImage
    /\ i' = 0
    /\ hex_points' = << >>
    /\ x_offset' = 0
    /\ icon' = NoImage
    /\ calls' = << >>
    /\ out' = << >>
    /\ created' = FALSE
    /\ writes' = 0
    /\ exc' = "none"
    /\ raisedAt' = "none"
    /\ UNCHANGED fs

Next ==
    \/ Import
    \/ Allocate
    \/ GradientBand
    \/ Border
    \/ HexVertex
    \/ Hexagon
    \/ \E k \in 1 .. 3 : WorkItemLine(k)
    \/ SprintDot
    \/ ChartLine
    \/ BadgeOuter
    \/ BadgeInner
    \/ Return
    \/ SaveOpen
    \/ SaveWrite
    \/ \E k \in 1 .. 3 : PrintStatus(k)
    \/ \E e \in ExcTypes : Raise(e)
    \/ Handler
    \/ Fallback
    \/ NextRun

Spec == Init /\ [][Next]_vars

----------------------------------------------------------------------------
(* Vocabulary of the properties *)

HasCanvas(im) == DOMAIN im # {}

\* Whether sequence s is a prefix of sequence t.
IsPrefix(s, t) ==
    /\ Len(s) <= Len(t)
    /\ \A k \in 1 .. Len(s) : s[k] = t[k]

IsStep(c, step) == c.step = step
IsGradientCall(c) == IsStep(c, "gradient")
IsDotCall(c) == IsStep(c, "dots")
GradientCalls == SelectSeq(calls, IsGradientCall)
DotCalls == SelectSeq(calls, IsDotCall)

StepOrder == <<"canvas", "gradient", "border", "hexagon", "bars", "dots",
               "chart", "badge">>
Rank(step) == CHOOSE k \in 1 .. Len(StepOrder) : StepOrder[k] = step

\* Number of drawing calls of a complete create_icon, the allocation included.
TotalCalls == 1 + radius + 1 + 1 + 3 + 3 + 4 + 2

Succeeded == pc = "done" /\ exc = "none"
MissingDependency == exc # "none" /\ IsSubclass(exc, "ImportError")

InBlueRange(p) == \A j \in 1 .. 3 : azure_dark[j] <= p[j] /\ p[j] <= azure_blue[j]
IsWhite(p) == p[1] = 255 /\ p[2] = 255 /\ p[3] = 255
IsOpaque(p) == p[4] = 255

Corners == {<<0, 0>>, <<0, size - 1>>, <<size - 1, 0>>, <<size - 1, size - 1>>}
TransparentCorners(im) ==
    HasCanvas(im) => \A c \in Corners : im[c[1]][c[2]][4] = 0

HexBottomY == hex_center_y + hex_radius

----------------------------------------------------------------------------
(* Error handling *)

\* C1: when the import statement raises ImportError (or its subclass for a
\* missing package), create_icon is never called (no drawing call, no
\* canvas), icon.png stays as the run found it, the exception does not
\* propagate, and the lines printed are the not-installed message followed
\* by the fallback suggestion and nothing else.
C1_MissingDependency ==
    (MissingDependency /\ raisedAt = "import") =>
        /\ calls = << >>
        /\ ~ HasCanvas(img)
        /\ ~ HasCanvas(icon)
        /\ writes = 0
        /\ fs = fs0
        /\ pc # "propagated"
        /\ IsPrefix(out, <<NotInstalledLine, FallbackLine>>)
        /\ pc = "done" => out = <<NotInstalledLine, FallbackLine>>

C1_Witness ==
    /\ pc = "done"
    /\ raisedAt = "import"
    /\ exc = "ModuleNotFoundError"
    /\ out = <<NotInstalledLine, FallbackLine>>

\* C2: when a drawing call or the save raises an exception that is not a
\* missing dependency, the run prints the error line with the exception's
\* text and the fallback suggestion, and at the end of the run icon.png is
\* as the run found it (neither created nor modified).
C2_FailedRunLeavesFile ==
    (pc = "done" /\ exc # "none" /\ ~ MissingDependency
        /\ raisedAt \in DrawPcs \cup SavePcs) =>
        /\ out = <<ErrorLine(exc), FallbackLine>>
        /\ fs = fs0

----------------------------------------------------------------------------
(* The successful run *)

\* C3: in a run that succeeds the drawing steps are made in the fixed order
\* canvas, gradient, border, hexagon, bars, dots, chart, badge, each as one
\* block; icon.png is written exactly once, only after the last drawing
\* call, from a 128x128 RGBA canvas; the three status lines are printed only
\* after the save has completed, and no failure line is printed.
C3_SuccessfulRun ==
    /\ Succeeded =>
        /\ Len(calls) = TotalCalls
        /\ \A k \in 1 .. Len(StepOrder) : \E m \in 1 .. Len(calls) :
               calls[m].step = StepOrder[k]
        /\ \A k, m \in 1 .. Len(calls) :
               k < m => Rank(calls[k].step) <= Rank(calls[m].step)
        /\ writes = 1
        /\ fs = PngFile(icon)
        /\ fs.complete /\ fs.format = "PNG" /\ fs.mode = "RGBA"
        /\ fs.dims = <<128, 128>>
        /\ out = <<SuccessLine, SizeLine, FormatLine>>
    /\ (writes > 0 \/ pc \in SavePcs) =>
        /\ Len(calls) = TotalCalls
        /\ calls[Len(calls)].step = "badge"
        /\ writes <= 1
    /\ (exc = "none" /\ out # << >>) =>
        /\ writes = 1
        /\ fs = PngFile(icon)
        /\ IsPrefix(out, <<SuccessLine, SizeLine, FormatLine>>)

C3_Witness ==
    /\ Succeeded
    /\ Len(out) = 3
    /\ writes = 1

----------------------------------------------------------------------------
(* Pixels of the canvas *)

\* C4 as stated: in the returned canvas the pixel at the canvas centre is
\* opaque, its colour lies between the two blues, and it is not white.
C4_CenterIsBlue ==
    HasCanvas(icon) =>
        /\ IsOpaque(icon[center][center])
        /\ InBlueRange(icon[center][center])
        /\ ~ IsWhite(icon[center][center])

\* C4 amended: in the returned canvas the pixel at the canvas centre is
\* opaque white, the fill of the hexagon drawn over the disc; before the
\* hexagon is drawn the gradient has left it with a colour between the two
\* blues and the alpha of the innermost band, which is not opaque.
C4_CenterIsHexagonFill ==
    /\ HasCanvas(icon) => icon[center][center] = <<255, 255, 255, 255>>
    /\ pc \in {"border", "hexpts", "polygon"} =>
        /\ InBlueRange(img[center][center])
        /\ img[center][center][4] = GradAlpha(1)
        /\ ~ IsOpaque(img[center][center])

C4_Witness ==
    /\ pc = "save"
    /\ HasCanvas(icon)
    /\ IsWhite(icon[center][center])

\* C5: the four corner pixels have alpha 0 in the canvas after every
\* drawing step, in the returned canvas and in the saved file.
C5_CornersTransparent ==
    /\ TransparentCorners(img)
    /\ TransparentCorners(icon)
    /\ fs.complete => TransparentCorners(fs.pixels)

C5_Witness ==
    /\ pc = "return"
    /\ Len(calls) = TotalCalls
    /\ HasCanvas(img)

\* C10: in the returned canvas every pixel of the outer badge square that
\* is not in the inner square is opaque accent blue, every pixel of the
\* inner square is opaque white, and no drawing call follows the badge.
C10_Badge ==
    /\ HasCanvas(icon) =>
        \A x \in 89 .. 97, y \in 89 .. 97 :
            IF 90 <= x /\ x <= 96 /\ 90 <= y /\ y <= 96
            THEN icon[x][y] = <<255, 255, 255, 255>>
            ELSE icon[x][y] = <<0, 122, 204, 255>>
    /\ \A k, m \in 1 .. Len(calls) :
           (calls[k].step = "badge" /\ k < m) => calls[m].step = "badge"
    /\ HasCanvas(icon) => calls[Len(calls)].xy = <<90, 90, 96, 96>>

C10_Witness ==
    /\ pc = "print1"
    /\ HasCanvas(icon)
    /\ calls[Len(calls)].step = "badge"

----------------------------------------------------------------------------
(* Geometry and arithmetic *)

\* C7: once the vertex loop has ended there are exactly 6 hexagon vertices,
\* those at 25 pixels from (64, 59) at the angles -90, -30, 30, 90, 150 and
\* 210 degrees (in millionths of a pixel), and the first one is (64, 34),
\* straight above the hexagon centre.
C7_HexagonVertices ==
    /\ Len(hex_points) <= 6
    /\ pc \notin {"import", "new", "gradient", "border", "hexpts", "except",
                  "fallback", "done", "propagated"} =>
        /\ Len(hex_points) = 6
        /\ hex_points = << <<64000000, 34000000>>, <<85650625, 46500000>>,
                           <<85650625, 71500000>>, <<64000000, 84000000>>,
                           <<42349375, 71500000>>, <<42349375, 46500000>> >>
    /\ Len(hex_points) >= 1 =>
        /\ hex_points[1][1] = hex_center_x * Micro
        /\ hex_points[1][2] = (hex_center_y - 25) * Micro

C7_Witness ==
    /\ pc = "polygon"
    /\ Len(hex_points) = 6

\* C8: the gradient loop draws circles of radius 58, 57, ..., exactly 58 of
\* them once it has ended; band i has each colour component equal to the
\* integer part of blue + (dark - blue) * (1 - i/58), between the dark and
\* the primary value, and alpha equal to the integer part of 255 * i / 58,
\* in 1..255; the first band is the primary blue with alpha 255, and alpha
\* strictly decreases from one band to the next.
C8_GradientBands ==
    LET g == GradientCalls
    IN  /\ Len(g) <= 58
        /\ (Len(calls) > 0 /\ pc \notin {"gradient", "except", "fallback",
                                         "done", "propagated"}) => Len(g) = 58
        /\ pc = "gradient" => i = 58 - Len(g) /\ i >= 1
        /\ \A k \in 1 .. Len(g) :
            LET r == 59 - k
                f == g[k].fill
            IN  /\ g[k].xy = <<64 - r, 64 - r, 64 + r, 64 + r>>
                /\ \A j \in 1 .. 3 :
                    /\ 58 * f[j] <= 58 * azure_blue[j]
                                    + (azure_dark[j] - azure_blue[j]) * (58 - r)
                    /\ 58 * azure_blue[j]
                       + (azure_dark[j] - azure_blue[j]) * (58 - r) < 58 * (f[j] + 1)
                    /\ azure_dark[j] <= f[j] /\ f[j] <= azure_blue[j]
                /\ 58 * f[4] <= 255 * r /\ 255 * r < 58 * (f[4] + 1)
                /\ 1 <= f[4] /\ f[4] <= 255
                /\ k > 1 => f[4] < g[k - 1].fill[4]
        /\ Len(g) >= 1 => g[1].fill = <<0, 120, 212, 255>>

C8_Witness ==
    /\ pc = "border"
    /\ Len(GradientCalls) = 58
    /\ GradientCalls[58].xy = <<63, 63, 65, 65>>

\* C9 as stated: the dots are drawn at the offsets -8, 0, 8 from the centre
\* and the vertical extent of every dot is strictly below the bottom vertex
\* of the hexagon.
C9_DotsBelowHexagon ==
    \A k \in 1 .. Len(DotCalls) :
        /\ DotCalls[k].xy[1] + DotCalls[k].xy[3] = 2 * (center + dot_offsets[k])
        /\ DotCalls[k].xy[2] > HexBottomY

\* C9 amended: the dots are drawn at the offsets -8, 0, 8 from the centre,
\* below the hexagon centre and the three bars and above the bottom vertex
\* of the hexagon; every pixel of a dot lies in the filled hexagon, is
\* white when the first dot is about to be drawn and primary blue in the
\* returned canvas.
C9_DotsInsideHexagon ==
    /\ Len(DotCalls) <= 3
    /\ (pc = "chart" \/ HasCanvas(icon)) => Len(DotCalls) = 3
    /\ \A k \in 1 .. Len(DotCalls) :
        LET box == DotCalls[k].xy
        IN  /\ box[1] + box[3] = 2 * (center + dot_offsets[k])
            /\ box[3] - box[1] = 4 /\ box[4] - box[2] = 4
            /\ hex_center_y < box[2]
            /\ line_y_start + 14 < box[2]
            /\ box[4] < HexBottomY
            /\ \A x \in box[1] .. box[3], y \in box[2] .. box[4] :
                InEllipse(x, y, box) =>
                    /\ InPolygon(x, y, TruncPoints(hex_points))
                    /\ HasCanvas(icon) => icon[x][y] = <<0, 120, 212, 255>>
    /\ (pc = "dots" /\ Len(DotCalls) = 0) =>
        \A k \in 1 .. 3 :
            \A x \in 60 + 8 * (k - 2) .. 68 + 8 * (k - 2), y \in 67 .. 71 :
                InEllipse(x, y, <<62 + 8 * (k - 2), 67, 66 + 8 * (k - 2), 71>>)
                    => img[x][y] = <<255, 255, 255, 255>>

C9_Witness ==
    /\ pc = "chart"
    /\ i = 0
    /\ Len(DotCalls) = 3

====
